---- MODULE Spec2Model ----
(***************************************************************************)
(* Model of api/views.py of weather-forecast: the day-count validator      *)
(* (validate_days), the statistics reduction (construct_forecast_payload), *)
(* the HTTP error message extraction (process_httperror) and the view      *)
(* get_aggregated_weather_forecast that sequences them around one          *)
(* requests.get call.                                                      *)
(*                                                                         *)
(* Conventions.  Temperatures are integers in tenths of a degree Celsius   *)
(* (34.2 is 342), so round(x, 1) becomes rounding a quotient to an         *)
(* integer.  A Python str is a sequence of one-character strings.  A       *)
(* Python dict is a TLA+ record: a missing key is a field that is not in   *)
(* DOMAIN.  Python lists are 0-based; PyGet translates the index.          *)
(***************************************************************************)
EXTENDS Integers, Sequences, FiniteSets, TLC

VARIABLES
    pc,               \* position of the request in the view, or of a function applied on its own
    no_of_days,       \* request.query_params.get('days')
    validated,        \* (is_valid, data) returned by validate_days
    getCalls,         \* requests.get calls issued for the current request
    upstream,         \* what requests.get / raise_for_status produced
    constructed,      \* what construct_forecast_payload produced
    msg,              \* the view's local msg
    response_status,  \* the view's local response_status
    response          \* what the view produced: a Response or an escaped exception

vars == <<pc, no_of_days, validated, getCalls, upstream, constructed,
          msg, response_status, response>>

-----------------------------------------------------------------------------
(* Bounds of the model.                                                    *)

\* longest query string drawn for validate_days on its own
MaxRawLen == 3
\* longest query string drawn for a request to the view
MaxQueryLen == 2
\* most forecast days a payload holds when construct_forecast_payload is
\* applied on its own
MaxDays == 14
\* most forecast days in a payload answered to the view
MaxViewDays == 3

-----------------------------------------------------------------------------
(* Program constants.                                                      *)

DAYS_UPPER == 14
DAYS_LOWER == 1
HOURS_PER_DAY == 24
HTTP_200_OK == 200
HTTP_400_BAD_REQUEST == 400
HTTP_500_INTERNAL_SERVER_ERROR == 500

MSG_NOT_SUPPLIED == "Number of days has not been supplied."
MSG_INVALID == "Invalid number of days provided."
MSG_UP_TO_14 == "The API can only forecast up to 14 days."
MSG_RANGE == "Number of days should range from 1 to 14."
MSG_INTERNAL == "Internal server error."

-----------------------------------------------------------------------------
(* Python's int(str): surrounding whitespace is stripped, one optional     *)
(* sign, then decimal digits; single underscores may separate digits.      *)

Digits == <<"0", "1", "2", "3", "4", "5", "6", "7", "8", "9">>

DigitChars == {Digits[i] : i \in 1..10}

\* the characters query strings are drawn from
Chars == DigitChars \cup {"-", "+", " ", "_", "x"}

DigitVal(c) == (CHOOSE i \in 1..10 : Digits[i] = c) - 1

RECURSIVE LStrip(_)
LStrip(s) == IF s # <<>> /\ Head(s) = " " THEN LStrip(Tail(s)) ELSE s

RECURSIVE RStrip(_)
RStrip(s) ==
    IF s # <<>> /\ s[Len(s)] = " " THEN RStrip(SubSeq(s, 1, Len(s) - 1)) ELSE s

Strip(s) == RStrip(LStrip(s))

\* the digit part of a literal: digits, with single underscores only
\* between two digits
DigitsOK(s) ==
    /\ s # <<>>
    /\ \A i \in 1..Len(s) : s[i] \in DigitChars \cup {"_"}
    /\ s[1] # "_" /\ s[Len(s)] # "_"
    /\ \A i \in 1..(Len(s) - 1) : ~(s[i] = "_" /\ s[i + 1] = "_")

RECURSIVE DigitsValue(_, _)
DigitsValue(s, acc) ==
    IF s = <<>> THEN acc
    ELSE IF Head(s) = "_" THEN DigitsValue(Tail(s), acc)
    ELSE DigitsValue(Tail(s), 10 * acc + DigitVal(Head(s)))

\* int(text): [ok |-> FALSE] stands for ValueError
PyInt(text) ==
    LET t == Strip(text)
        signed == t # <<>> /\ Head(t) \in {"-", "+"}
        body == IF signed THEN Tail(t) ELSE t
    IN  IF ~DigitsOK(body) THEN [ok |-> FALSE, val |-> 0]
        ELSE IF signed /\ Head(t) = "-"
             THEN [ok |-> TRUE, val |-> 0 - DigitsValue(body, 0)]
             ELSE [ok |-> TRUE, val |-> DigitsValue(body, 0)]

-----------------------------------------------------------------------------
(* validate_days: (is_valid, data).  The query parameter is a record:      *)
(* present = FALSE stands for None.                                        *)

\* validate_days with the upper comparison off by one (>= for >)
validate_days_off_by_one(q) ==
    IF ~q.present THEN [is_valid |-> FALSE, data |-> MSG_NOT_SUPPLIED]
    ELSE LET n == PyInt(q.text)
         IN  IF ~n.ok THEN [is_valid |-> FALSE, data |-> MSG_INVALID]
             ELSE IF n.val >= DAYS_UPPER
                  THEN [is_valid |-> FALSE, data |-> MSG_UP_TO_14]
             ELSE IF n.val < DAYS_LOWER
                  THEN [is_valid |-> FALSE, data |-> MSG_RANGE]
             ELSE [is_valid |-> TRUE, data |-> n.val]

validate_days(q) ==
    IF ~q.present THEN [is_valid |-> FALSE, data |-> MSG_NOT_SUPPLIED]
    ELSE LET n == PyInt(q.text)
         IN  IF ~n.ok THEN [is_valid |-> FALSE, data |-> MSG_INVALID]
             ELSE IF n.val > DAYS_UPPER
                  THEN [is_valid |-> FALSE, data |-> MSG_UP_TO_14]
             ELSE IF n.val < DAYS_LOWER
                  THEN [is_valid |-> FALSE, data |-> MSG_RANGE]
             ELSE [is_valid |-> TRUE, data |-> n.val]

-----------------------------------------------------------------------------
(* Python helpers used by construct_forecast_payload.                      *)

\* lst[i] raises IndexError unless -len <= i < len
PyIndexOK(lst, i) == IF i >= 0 THEN i < Len(lst) ELSE 0 - i <= Len(lst)

PyGet(lst, i) == IF i >= 0 THEN lst[i + 1] ELSE lst[Len(lst) + i + 1]

\* round(n / d) for d > 0, a tie going to the even neighbour
PyRound(n, d) ==
    LET q == n \div d
        r == n % d
    IN  IF 2 * r < d THEN q
        ELSE IF 2 * r > d THEN q + 1
        ELSE IF q % 2 = 0 THEN q ELSE q + 1

\* -math.inf, math.inf and the finite floats
NegInf == [inf |-> "-"]
PosInf == [inf |-> "+"]
Fin(x) == [inf |-> "no", v |-> x]

\* max(x, acc) that forgets the running maximum
PyMax_last(x, acc) == Fin(x)

\* max(x, acc) and min(x, acc) for a finite x
PyMax(x, acc) ==
    IF acc.inf = "-" THEN Fin(x)
    ELSE IF acc.inf = "+" THEN acc
    ELSE IF acc.v > x THEN acc ELSE Fin(x)

PyMin(x, acc) ==
    IF acc.inf = "+" THEN Fin(x)
    ELSE IF acc.inf = "-" THEN acc
    ELSE IF acc.v < x THEN acc ELSE Fin(x)

\* exceptions raised inside the try block, with their args
KeyError(k) == [type |-> "KeyError", args |-> <<k>>]
IndexError == [type |-> "IndexError", args |-> <<"list index out of range">>]
TypeError == [type |-> "TypeError", args |-> <<"list indices must be integers">>]
NoException == [type |-> "none", args |-> <<>>]

-----------------------------------------------------------------------------
(* construct_forecast_payload.  A response is [body |-> b]: b.kind is      *)
(* "notjson" (json() raises b.exc), "array" (a JSON array) or "object"     *)
(* (b.value is the decoded dict).                                          *)

\* api_response_object.json()['forecast']['forecastday']
ForecastdayException(b) ==
    IF b.kind = "notjson" THEN b.exc
    ELSE IF b.kind = "array" THEN TypeError
    ELSE IF "forecast" \notin DOMAIN b.value THEN KeyError("forecast")
    ELSE IF "forecastday" \notin DOMAIN b.value.forecast
         THEN KeyError("forecastday")
    ELSE NoException

\* data_points without the hour == 0 branch: hour - 1 is then -1, which
\* Python reads as the last hour of the same day
data_points_no_wrap(days) ==
    LET record_count == days * HOURS_PER_DAY
        middle_position == record_count \div 2
        day_index == middle_position \div HOURS_PER_DAY
        hour == middle_position % HOURS_PER_DAY
    IN  <<<<day_index, hour - 1>>, <<day_index, hour>>>>

\* day_index, hour = divmod(record_count // 2, 24) and the two data points
data_points(days) ==
    LET record_count == days * HOURS_PER_DAY
        middle_position == record_count \div 2
        day_index == middle_position \div HOURS_PER_DAY
        hour == middle_position % HOURS_PER_DAY
    IN  IF hour = 0
        THEN <<<<day_index - 1, 23>>, <<day_index, hour>>>>
        ELSE <<<<day_index, hour - 1>>, <<day_index, hour>>>>

\* daily_forecasts[p[0]]['hour'][p[1]]['temp_c']
ReadingException(daily_forecasts, p) ==
    IF ~PyIndexOK(daily_forecasts, p[1]) THEN IndexError
    ELSE LET forecast == PyGet(daily_forecasts, p[1])
         IN  IF "hour" \notin DOMAIN forecast THEN KeyError("hour")
             ELSE IF ~PyIndexOK(forecast.hour, p[2]) THEN IndexError
             ELSE IF "temp_c" \notin DOMAIN PyGet(forecast.hour, p[2])
                  THEN KeyError("temp_c")
             ELSE NoException

Reading(daily_forecasts, p) ==
    PyGet(PyGet(daily_forecasts, p[1]).hour, p[2]).temp_c

\* the hourly loop stopping one reading early
RECURSIVE HourLoop_short(_, _, _)
HourLoop_short(hours, j, st) ==
    IF st.exc.type # "none" \/ j >= Len(hours) THEN st
    ELSE IF "temp_c" \notin DOMAIN hours[j]
         THEN [st EXCEPT !.exc = KeyError("temp_c")]
    ELSE HourLoop_short(hours, j + 1,
                        [st EXCEPT !.running_sum = @ + hours[j].temp_c])

\* for hourly_forecast in forecast['hour']: running_sum += ...['temp_c']
RECURSIVE HourLoop(_, _, _)
HourLoop(hours, j, st) ==
    IF st.exc.type # "none" \/ j > Len(hours) THEN st
    ELSE IF "temp_c" \notin DOMAIN hours[j]
         THEN [st EXCEPT !.exc = KeyError("temp_c")]
    ELSE HourLoop(hours, j + 1,
                  [st EXCEPT !.running_sum = @ + hours[j].temp_c])

\* one pass of "for forecast in daily_forecasts"
DayStep(forecast, st) ==
    IF "day" \notin DOMAIN forecast THEN [st EXCEPT !.exc = KeyError("day")]
    ELSE IF "maxtemp_c" \notin DOMAIN forecast.day
         THEN [st EXCEPT !.exc = KeyError("maxtemp_c")]
    ELSE IF "mintemp_c" \notin DOMAIN forecast.day
         THEN [st EXCEPT !.exc = KeyError("mintemp_c")]
    ELSE IF "hour" \notin DOMAIN forecast
         THEN [st EXCEPT !.exc = KeyError("hour")]
    ELSE HourLoop(forecast.hour, 1,
                  [st EXCEPT !.max_temp = PyMax(forecast.day.maxtemp_c, @),
                             !.min_temp = PyMin(forecast.day.mintemp_c, @)])

RECURSIVE DayLoop(_, _, _)
DayLoop(daily_forecasts, i, st) ==
    IF st.exc.type # "none" \/ i > Len(daily_forecasts) THEN st
    ELSE DayLoop(daily_forecasts, i + 1, DayStep(daily_forecasts[i], st))

\* the try block: [exc |-> the exception raised, or NoException,
\*                 data |-> forecast_data]
TryConstruct(b) ==
    LET e0 == ForecastdayException(b)
    IN  IF e0.type # "none" THEN [exc |-> e0]
        ELSE
        LET daily_forecasts == b.value.forecast.forecastday
            days == Len(daily_forecasts)
            record_count == days * HOURS_PER_DAY
            pts == data_points(days)
            e1 == ReadingException(daily_forecasts, pts[1])
            e2 == ReadingException(daily_forecasts, pts[2])
        IN  IF e1.type # "none" THEN [exc |-> e1]
            ELSE IF e2.type # "none" THEN [exc |-> e2]
            ELSE
            LET temp1 == Reading(daily_forecasts, pts[1])
                temp2 == Reading(daily_forecasts, pts[2])
                median_temp == PyRound(temp1 + temp2, 2)
                st == DayLoop(daily_forecasts, 1,
                              [exc |-> NoException, max_temp |-> NegInf,
                               min_temp |-> PosInf, running_sum |-> 0])
            IN  IF st.exc.type # "none" THEN [exc |-> st.exc]
                ELSE [exc |-> NoException,
                      data |-> [maximum |-> st.max_temp,
                                minimum |-> st.min_temp,
                                average |-> PyRound(st.running_sum, record_count),
                                median |-> median_temp]]

\* construct_forecast_payload: "returned" with (msg, error), or "raised"
\* when the except clause itself raises on exc.args[0]
construct_forecast_payload(api_response_object) ==
    LET t == TryConstruct(api_response_object.body)
    IN  IF t.exc.type = "none"
        THEN [kind |-> "returned", error |-> FALSE, data |-> t.data]
        ELSE IF t.exc.args = <<>>
             THEN [kind |-> "raised"]
        ELSE [kind |-> "returned", error |-> TRUE, text |-> MSG_INTERNAL]

-----------------------------------------------------------------------------
(* Inputs.                                                                 *)

StringsUpTo(n) == UNION {[1..k -> Chars] : k \in 0..n}

Absent == [present |-> FALSE, text |-> <<>>]

QueryParams(n) == {Absent} \cup {[present |-> TRUE, text |-> s] : s \in StringsUpTo(n)}

NotValidated == [is_valid |-> FALSE, data |-> "<not validated>"]
NoUpstream == [kind |-> "none"]
NotConstructed == [kind |-> "none"]

\* values of the view's locals and of its result
Unbound == [kind |-> "unbound"]
Text(t) == [kind |-> "str", text |-> t]
Stats(d) == [kind |-> "dict", data |-> d]
Status(n) == [kind |-> "int", v |-> n]
NoResponse == [kind |-> "none"]
Returned(m, st) == [kind |-> "response", data |-> m, status |-> st]
Escaped(t) == [kind |-> "exception", type |-> t]

-----------------------------------------------------------------------------
(* process_httperror.  exc is [args, response |-> [body, reason]]; the     *)
(* error body is "notjson", "array", "scalar_error" ({"error": "..."}) or  *)
(* "object".  Returns [kind |-> "returned", text] or [kind |-> "raised"].  *)

\* the try block: msg.get('error', {}).get('message'), None as absent
ErrorMessageLookup(b) ==
    IF b.kind = "notjson" THEN [exc |-> b.exc]
    ELSE IF b.kind \in {"array", "scalar_error"}
         THEN [exc |-> [type |-> "AttributeError",
                        args |-> <<"object has no attribute 'get'">>]]
    ELSE IF "error" \notin DOMAIN b.value THEN [exc |-> NoException, found |-> FALSE]
    ELSE IF "message" \notin DOMAIN b.value.error
         THEN [exc |-> NoException, found |-> FALSE]
    ELSE [exc |-> NoException, found |-> TRUE,
          error_msg |-> b.value.error.message]

\* process_httperror returning error.message whenever the key is there
process_httperror_no_fallback(exc) ==
    LET t == ErrorMessageLookup(exc.response.body)
    IN  IF t.exc.type = "none"
        THEN IF t.found
             THEN [kind |-> "returned", text |-> t.error_msg]
             ELSE [kind |-> "returned", text |-> exc.response.reason]
        ELSE IF exc.args = <<>> THEN [kind |-> "raised"]
        ELSE [kind |-> "returned", text |-> exc.response.reason]

process_httperror(exc) ==
    LET t == ErrorMessageLookup(exc.response.body)
    IN  IF t.exc.type = "none"
        THEN \* error_msg or exc.response.reason
             IF t.found /\ t.error_msg # ""
             THEN [kind |-> "returned", text |-> t.error_msg]
             ELSE [kind |-> "returned", text |-> exc.response.reason]
        ELSE \* except Exception: LOGGER.error(exc.args[0], ...)
             IF exc.args = <<>> THEN [kind |-> "raised"]
             ELSE [kind |-> "returned", text |-> exc.response.reason]

-----------------------------------------------------------------------------
(* Upstream payloads.                                                      *)

HoursOf(temps) == [j \in 1..Len(temps) |-> [temp_c |-> temps[j]]]

DayRec(mx, mn, temps) ==
    [day |-> [maxtemp_c |-> mx, mintemp_c |-> mn], hour |-> HoursOf(temps)]

Object(fd) ==
    [kind |-> "object",
     value |-> [location |-> "LONDON", forecast |-> [forecastday |-> fd]]]

\* every reading is k.base but the one at (day d, hour h), which is k.v
SpikeKinds == {[base |-> 0, v |-> 60], [base |-> 101, v |-> 0 - 7]}

SpikeBody(D, d, h, k) ==
    Object([i \in 1..D |->
              DayRec(300, 0 - 50,
                     [j \in 1..HOURS_PER_DAY |->
                        IF i - 1 = d /\ j - 1 = h THEN k.v ELSE k.base])])

SpikeBodies(maxD, hours) ==
    {SpikeBody(D[1], D[2], h, k) :
        D \in {x \in (1..maxD) \X (0..(maxD - 1)) : x[2] < x[1]},
        h \in hours, k \in SpikeKinds}

\* hourly readings inside the day-level range, or leaving it on both sides
HourProfiles == {"inside", "outside"}

ProfileTemps(prof) ==
    [j \in 1..HOURS_PER_DAY |->
        IF prof = "outside" /\ j = HOURS_PER_DAY THEN 400
        ELSE IF prof = "outside" /\ j = 1 THEN 0 - 100
        ELSE 100 + j]

\* day md holds the largest maxtemp_c and day nd the smallest mintemp_c
DayLevelBody(D, md, nd, prof) ==
    Object([i \in 1..D |->
              DayRec(IF i - 1 = md THEN 342 ELSE 200 + i,
                     IF i - 1 = nd THEN 0 - 39 ELSE 60 + i,
                     ProfileTemps(prof))])

DayLevelBodies(maxD) ==
    UNION {{DayLevelBody(D, md, nd, prof) :
               md \in 0..(D - 1), nd \in 0..(D - 1), prof \in HourProfiles} :
           D \in 1..maxD}

\* hour-array lengths other than 24
RaggedLens == {0, 12, 23, 25}

FlatDay(n) == DayRec(300, 0 - 50, [j \in 1..n |-> 100 + j])

\* a payload of D days whose day d (0-based) is replaced by bad
WithDay(D, d, bad) ==
    Object([i \in 1..D |-> IF i - 1 = d THEN bad ELSE FlatDay(HOURS_PER_DAY)])

RaggedBodies(maxD) ==
    {WithDay(x[1], x[2], FlatDay(n)) :
        x \in {y \in (1..maxD) \X (0..(maxD - 1)) : y[2] < y[1]},
        n \in RaggedLens}

\* a day with one key missing
BadDays ==
    {[hour |-> FlatDay(HOURS_PER_DAY).hour],
     [day |-> FlatDay(HOURS_PER_DAY).day],
     [day |-> [mintemp_c |-> 0 - 50], hour |-> FlatDay(HOURS_PER_DAY).hour],
     [day |-> [maxtemp_c |-> 300], hour |-> FlatDay(HOURS_PER_DAY).hour]}
    \cup
    {[day |-> FlatDay(HOURS_PER_DAY).day,
      hour |-> [j \in 1..HOURS_PER_DAY |->
                  IF j - 1 = h THEN [time |-> "00:00"] ELSE [temp_c |-> 100 + j]]] :
        h \in {0, 11, 23}}

MissingKeyBodies(maxD) ==
    {WithDay(x[1], x[2], bad) :
        x \in {y \in (1..maxD) \X (0..(maxD - 1)) : y[2] < y[1]},
        bad \in BadDays}
    \cup
    {[kind |-> "object", value |-> [location |-> "LONDON"]],
     [kind |-> "object",
      value |-> [location |-> "LONDON", forecast |-> [alerts |-> "none"]]]}

JSONDecodeError ==
    [type |-> "JSONDecodeError", args |-> <<"Expecting value">>]

UndecodableBodies ==
    {[kind |-> "notjson", exc |-> JSONDecodeError], [kind |-> "array"]}

EmptyBody == Object(<<>>)

MalformedBodies(maxD) ==
    RaggedBodies(maxD) \cup MissingKeyBodies(maxD) \cup UndecodableBodies
        \cup {EmptyBody}

Response(b) == [kind |-> "response", body |-> b]

-----------------------------------------------------------------------------
(* construct_forecast_payload applied on its own.                          *)

ForecastBodies ==
    SpikeBodies(MaxDays, 0..(HOURS_PER_DAY - 1)) \cup DayLevelBodies(MaxDays)
        \cup MalformedBodies(MaxViewDays)

InitForecast ==
    /\ pc = "construct"
    /\ no_of_days = Absent
    /\ validated = NotValidated
    /\ getCalls = 0
    /\ upstream \in {Response(b) : b \in ForecastBodies}
    /\ constructed = NotConstructed
    /\ msg = Unbound
    /\ response_status = Unbound
    /\ response = NoResponse

ApplyConstruct ==
    /\ pc = "construct"
    /\ constructed' = construct_forecast_payload(upstream)
    /\ pc' = "construct_done"
    /\ UNCHANGED <<no_of_days, validated, getCalls, upstream, msg,
                   response_status, response>>

NextForecast == ApplyConstruct

SpecForecast == InitForecast /\ [][NextForecast]_vars

-----------------------------------------------------------------------------
(* validate_days applied on its own to every query string of the bound.    *)

InitValidate ==
    /\ pc = "validate_days"
    /\ no_of_days \in QueryParams(MaxRawLen)
    /\ validated = NotValidated
    /\ getCalls = 0
    /\ upstream = NoUpstream
    /\ constructed = NotConstructed
    /\ msg = Unbound
    /\ response_status = Unbound
    /\ response = NoResponse

ApplyValidate ==
    /\ pc = "validate_days"
    /\ validated' = validate_days(no_of_days)
    /\ pc' = "validate_days_done"
    /\ UNCHANGED <<no_of_days, getCalls, upstream, constructed, msg,
                   response_status, response>>

NextValidate == ApplyValidate

SpecValidate == InitValidate /\ [][NextValidate]_vars

-----------------------------------------------------------------------------
(* get_aggregated_weather_forecast.                                        *)

\* bodies of an upstream error response
BUSINESS_MESSAGE == "No matching location found."

ErrorBodies ==
    {[kind |-> "notjson", exc |-> JSONDecodeError],
     [kind |-> "array"],
     [kind |-> "scalar_error"],
     [kind |-> "object", value |-> [location |-> "LONDON"]],
     [kind |-> "object", value |-> [error |-> [code |-> 1006]]],
     [kind |-> "object",
      value |-> [error |-> [code |-> 1006, message |-> BUSINESS_MESSAGE]]],
     [kind |-> "object", value |-> [error |-> [code |-> 1006, message |-> ""]]]}

Reasons == {"Bad Request", "Not Found"}

\* response.raise_for_status() raises HTTPError(http_error_msg, response=self)
HTTPErrors ==
    {[kind |-> "HTTPError", args |-> <<"400 Client Error">>,
      response |-> [body |-> b, reason |-> r]] : b \in ErrorBodies, r \in Reasons}

\* what else requests.get can raise: the transport failures of requests,
\* which carry the underlying error as args[0], and any other exception,
\* with or without args
OtherExceptions ==
    {[kind |-> "Exception", class |-> "ConnectionError",
      args |-> <<"Max retries exceeded">>],
     [kind |-> "Exception", class |-> "Timeout", args |-> <<"Read timed out.">>],
     [kind |-> "Exception", class |-> "Exception", args |-> <<"boom">>],
     [kind |-> "Exception", class |-> "Exception", args |-> <<>>]}

ViewSpikeHours == {0, 11, 12, 23}

ViewBodies ==
    SpikeBodies(MaxViewDays, ViewSpikeHours) \cup DayLevelBodies(MaxViewDays)
        \cup MalformedBodies(MaxViewDays)

\* except HTTPError as exc (lines 56-62): the locals it leaves
HTTPErrorBranch(exc) ==
    IF exc.args = <<>>
    THEN [msg |-> Unbound, response_status |-> Unbound]
    ELSE LET r == process_httperror(exc)
         IN  [response_status |-> Status(HTTP_400_BAD_REQUEST),
              msg |-> IF r.kind = "returned" THEN Text(r.text) ELSE Unbound]

\* the generic handler without the logging call
ExceptionBranch_no_log(exc) ==
    [msg |-> Text(MSG_INTERNAL),
     response_status |-> Status(HTTP_500_INTERNAL_SERVER_ERROR)]

\* the generic handler answering with the exception's own text
ExceptionBranch_leaky(exc) ==
    IF exc.args = <<>>
    THEN [msg |-> Unbound, response_status |-> Unbound]
    ELSE [msg |-> Text(exc.args[1]),
          response_status |-> Status(HTTP_500_INTERNAL_SERVER_ERROR)]

\* except Exception as exc (lines 64-68)
ExceptionBranch(exc) ==
    IF exc.args = <<>>
    THEN [msg |-> Unbound, response_status |-> Unbound]
    ELSE [msg |-> Text(MSG_INTERNAL),
          response_status |-> Status(HTTP_500_INTERNAL_SERVER_ERROR)]

\* else (lines 70-74), c being what construct_forecast_payload produced
ElseBranch(c) ==
    IF c.kind = "raised"
    THEN [msg |-> Unbound, response_status |-> Status(HTTP_200_OK)]
    ELSE IF c.error
         THEN [msg |-> Text(c.text),
               response_status |-> Status(HTTP_500_INTERNAL_SERVER_ERROR)]
    ELSE [msg |-> Stats(c.data), response_status |-> Status(HTTP_200_OK)]

\* finally: return Response(msg, status=response_status)
Finally(l) ==
    IF l.msg = Unbound \/ l.response_status = Unbound
    THEN Escaped("UnboundLocalError")
    ELSE Returned(l.msg, l.response_status)

Init ==
    /\ pc = "idle"
    /\ no_of_days = Absent
    /\ validated = NotValidated
    /\ getCalls = 0
    /\ upstream = NoUpstream
    /\ constructed = NotConstructed
    /\ msg = Unbound
    /\ response_status = Unbound
    /\ response = NoResponse

\* a request arrives with its days query parameter (requests share no
\* state, so one request is followed from arrival to its result)
ReceiveRequest ==
    /\ pc = "idle"
    /\ \E q \in QueryParams(MaxQueryLen) : no_of_days' = q
    /\ pc' = "validate"
    /\ UNCHANGED <<validated, getCalls, upstream, constructed, msg,
                   response_status, response>>

\* the rejection answered only after the upstream call was issued
ValidateRejects_after_call ==
    /\ pc = "validate"
    /\ ~validate_days(no_of_days).is_valid
    /\ validated' = validate_days(no_of_days)
    /\ getCalls' = getCalls + 1
    /\ response' = Returned(Text(validate_days(no_of_days).data),
                            Status(HTTP_400_BAD_REQUEST))
    /\ pc' = "done"
    /\ UNCHANGED <<no_of_days, upstream, constructed, msg, response_status>>

\* lines 40-42 when validation fails
ValidateRejects ==
    /\ pc = "validate"
    /\ ~validate_days(no_of_days).is_valid
    /\ validated' = validate_days(no_of_days)
    /\ response' = Returned(Text(validate_days(no_of_days).data),
                            Status(HTTP_400_BAD_REQUEST))
    /\ pc' = "done"
    /\ UNCHANGED <<no_of_days, getCalls, upstream, constructed, msg,
                   response_status>>

\* lines 40-48 when validation succeeds
ValidateAccepts ==
    /\ pc = "validate"
    /\ validate_days(no_of_days).is_valid
    /\ validated' = validate_days(no_of_days)
    /\ pc' = "request"
    /\ UNCHANGED <<no_of_days, getCalls, upstream, constructed, msg,
                   response_status, response>>

\* line 51: requests.get is called
SendRequest ==
    /\ pc = "request"
    /\ getCalls' = getCalls + 1
    /\ pc' = "awaiting"
    /\ UNCHANGED <<no_of_days, validated, upstream, constructed, msg,
                   response_status, response>>

\* the call or raise_for_status raises HTTPError: lines 56-62 and 76-77
UpstreamHTTPError ==
    /\ pc = "awaiting"
    /\ \E exc \in HTTPErrors :
          LET l == HTTPErrorBranch(exc)
          IN  /\ upstream' = exc
              /\ msg' = l.msg
              /\ response_status' = l.response_status
              /\ response' = Finally(l)
    /\ pc' = "done"
    /\ UNCHANGED <<no_of_days, validated, getCalls, constructed>>

\* the generic handler issuing the call a second time
UpstreamException_retry ==
    /\ pc = "awaiting"
    /\ \E exc \in OtherExceptions :
          LET l == ExceptionBranch(exc)
          IN  /\ upstream' = exc
              /\ msg' = l.msg
              /\ response_status' = l.response_status
              /\ response' = Finally(l)
    /\ getCalls' = getCalls + 1
    /\ pc' = "done"
    /\ UNCHANGED <<no_of_days, validated, constructed>>

\* the call raises anything else: lines 64-68 and 76-77
UpstreamException ==
    /\ pc = "awaiting"
    /\ \E exc \in OtherExceptions :
          LET l == ExceptionBranch(exc)
          IN  /\ upstream' = exc
              /\ msg' = l.msg
              /\ response_status' = l.response_status
              /\ response' = Finally(l)
    /\ pc' = "done"
    /\ UNCHANGED <<no_of_days, validated, getCalls, constructed>>

\* the success path holding the payload to the requested number of days
UpstreamResponse_requested_days ==
    /\ pc = "awaiting"
    /\ \E b \in ViewBodies :
          LET c == IF /\ b.kind = "object"
                      /\ "forecast" \in DOMAIN b.value
                      /\ "forecastday" \in DOMAIN b.value.forecast
                      /\ Len(b.value.forecast.forecastday) # validated.data
                   THEN [kind |-> "returned", error |-> TRUE,
                         text |-> MSG_INTERNAL]
                   ELSE construct_forecast_payload(Response(b))
              l == ElseBranch(c)
          IN  /\ upstream' = Response(b)
              /\ constructed' = c
              /\ msg' = l.msg
              /\ response_status' = l.response_status
              /\ response' = Finally(l)
    /\ pc' = "done"
    /\ UNCHANGED <<no_of_days, validated, getCalls>>

\* the call returns a response that passes raise_for_status: lines 70-77
UpstreamResponse ==
    /\ pc = "awaiting"
    /\ \E b \in ViewBodies :
          LET c == construct_forecast_payload(Response(b))
              l == ElseBranch(c)
          IN  /\ upstream' = Response(b)
              /\ constructed' = c
              /\ msg' = l.msg
              /\ response_status' = l.response_status
              /\ response' = Finally(l)
    /\ pc' = "done"
    /\ UNCHANGED <<no_of_days, validated, getCalls>>

Next ==
    \/ ReceiveRequest
    \/ ValidateRejects
    \/ ValidateAccepts
    \/ SendRequest
    \/ UpstreamHTTPError
    \/ UpstreamException
    \/ UpstreamResponse

Spec == Init /\ [][Next]_vars

-----------------------------------------------------------------------------
(* C1.                                                                     *)

Fails(r, m) == ~r.is_valid /\ r.data = m
Succeeds(r, n) == r.is_valid /\ r.data = n

\* decimal literal of n, written independently of PyInt
RECURSIVE DecDigits(_)
DecDigits(n) ==
    IF n < 10 THEN <<Digits[n + 1]>>
    ELSE Append(DecDigits(n \div 10), Digits[(n % 10) + 1])

Dec(n) == IF n < 0 THEN <<"-">> \o DecDigits(0 - n) ELSE DecDigits(n)

\* the integers whose literals the claim names, and a margin around them
LiteralRange == (0 - 20)..20

\* C1: validate_days returns exactly one outcome, chosen in the order
\* absent -> 'Number of days has not been supplied.'; not an integer ->
\* 'Invalid number of days provided.'; > 14 -> 'The API can only forecast up
\* to 14 days.'; < 1 -> 'Number of days should range from 1 to 14.';
\* otherwise success carrying the integer.  The decimal literals of 0 and
\* -1 give the range message, those of 15 and 20 the up-to-14 message, and
\* those of 1..14 succeed with their value.
C1_ValidateDaysOutcome ==
    pc = "validate_days_done" =>
        LET q == no_of_days
            r == validated
            n == PyInt(q.text)
        IN  /\ ~q.present => Fails(r, MSG_NOT_SUPPLIED)
            /\ q.present /\ ~n.ok => Fails(r, MSG_INVALID)
            /\ q.present /\ n.ok /\ n.val > 14 => Fails(r, MSG_UP_TO_14)
            /\ q.present /\ n.ok /\ n.val < 1 => Fails(r, MSG_RANGE)
            /\ q.present /\ n.ok /\ n.val \in 1..14 => Succeeds(r, n.val)
            /\ \A k \in LiteralRange :
                   (q.present /\ q.text = Dec(k)) =>
                       IF k > 14 THEN Fails(r, MSG_UP_TO_14)
                       ELSE IF k < 1 THEN Fails(r, MSG_RANGE)
                       ELSE Succeeds(r, k)
            /\ (q.present /\ \E i \in 1..Len(q.text) : q.text[i] = "x")
                   => Fails(r, MSG_INVALID)

\* '14' was validated and accepted as 14
C1_Witness ==
    /\ pc = "validate_days_done"
    /\ no_of_days.present /\ no_of_days.text = <<"1", "4">>
    /\ validated.is_valid /\ validated.data = 14

-----------------------------------------------------------------------------
(* C3, C4, C5: the statistics.                                             *)

\* the payload is a dict holding a forecastday list
HasDays(b) ==
    /\ b.kind = "object"
    /\ "forecast" \in DOMAIN b.value
    /\ "forecastday" \in DOMAIN b.value.forecast

DaysOf(b) == b.value.forecast.forecastday

\* D >= 1 days, each with its day-level fields and 24 hourly readings
WellFormed(b) ==
    /\ HasDays(b)
    /\ Len(DaysOf(b)) >= 1
    /\ \A i \in 1..Len(DaysOf(b)) :
          LET f == DaysOf(b)[i]
          IN  /\ DOMAIN f = {"day", "hour"}
              /\ {"maxtemp_c", "mintemp_c"} \subseteq DOMAIN f.day
              /\ Len(f.hour) = 24
              /\ \A j \in 1..24 : "temp_c" \in DOMAIN f.hour[j]

\* the hourly temperatures of all days, by day and then by hour
RECURSIVE Flatten(_)
Flatten(fd) ==
    IF fd = <<>> THEN <<>>
    ELSE [j \in 1..Len(fd[1].hour) |-> fd[1].hour[j].temp_c] \o Flatten(Tail(fd))

\* the sum of a sequence, by halves
RECURSIVE SeqSum(_)
SeqSum(xs) ==
    IF Len(xs) = 0 THEN 0
    ELSE IF Len(xs) = 1 THEN xs[1]
    ELSE LET h == Len(xs) \div 2
         IN  SeqSum(SubSeq(xs, 1, h)) + SeqSum(SubSeq(xs, h + 1, Len(xs)))

\* the reading of hour h of day d, both 0-based
TempAt(fd, d, h) == fd[d + 1].hour[h + 1].temp_c

Succeeded == pc = "construct_done" /\ constructed.kind = "returned" /\ ~constructed.error

\* C3: for a payload of D days of 24 readings each, the median is the
\* rounded average of the readings at flattened positions mid-1 and mid,
\* mid = (D*24) // 2: day (D-1)/2 hours 11 and 12 for odd D, and the
\* cross-day pair (day D/2 - 1, hour 23), (day D/2, hour 0) for even D.
C3_MedianPositions ==
    (pc = "construct_done" /\ WellFormed(upstream.body)) =>
        LET fd == DaysOf(upstream.body)
            D == Len(fd)
            flat == Flatten(fd)
            mid == (D * 24) \div 2
        IN  /\ Succeeded
            /\ constructed.data.median = PyRound(flat[mid] + flat[mid + 1], 2)
            /\ D % 2 = 1 =>
                  constructed.data.median =
                      PyRound(TempAt(fd, (D - 1) \div 2, 11)
                                + TempAt(fd, (D - 1) \div 2, 12), 2)
            /\ D % 2 = 0 =>
                  constructed.data.median =
                      PyRound(TempAt(fd, (D \div 2) - 1, 23)
                                + TempAt(fd, D \div 2, 0), 2)

\* two days, the spike at day 0 hour 23: the median is the average of that
\* reading and day 1 hour 0
C3_Witness ==
    /\ Succeeded
    /\ upstream.body = SpikeBody(2, 0, 23, [base |-> 0, v |-> 60])
    /\ constructed.data.median = 30

SetMax(S) == CHOOSE x \in S : \A y \in S : y <= x
SetMin(S) == CHOOSE x \in S : \A y \in S : x <= y

\* the payload with every day's hourly readings replaced
ReplaceHours(b, temps) ==
    Object([i \in 1..Len(DaysOf(b)) |->
              [day |-> DaysOf(b)[i].day, hour |-> HoursOf(temps)]])

-----------------------------------------------------------------------------
(* C2, C6 - C10: the view.                                                 *)

\* C2: when validate_days fails, the request ends with a 400 response whose
\* body is the validator's message, and no upstream request is issued at
\* any point of that request.
C2_RejectedNeverReachesUpstream ==
    (pc # "idle" /\ ~validate_days(no_of_days).is_valid) =>
        /\ getCalls = 0
        /\ upstream = NoUpstream
        /\ pc \in {"validate", "done"}
        /\ pc = "done" =>
              response = Returned(Text(validate_days(no_of_days).data),
                                  Status(400))

\* days=15 was answered 400 with the up-to-14 message and no upstream call
C2_Witness ==
    /\ pc = "done"
    /\ no_of_days.present /\ no_of_days.text = <<"1", "5">>
    /\ response = Returned(Text(MSG_UP_TO_14), Status(400))
    /\ getCalls = 0

\* C6: a success response whose payload is malformed (a missing key, an
\* empty forecastday list, or a day without exactly 24 hourly readings) is
\* answered 'Internal server error.' with status 500, never statistics.
C6_MalformedIsServerError ==
    (pc = "done" /\ upstream.kind = "response" /\ ~WellFormed(upstream.body)) =>
        response = Returned(Text(MSG_INTERNAL), Status(500))

\* error.message of an error body, when the body is an object holding it
HasErrorMessage(b) ==
    /\ b.kind = "object"
    /\ "error" \in DOMAIN b.value
    /\ "message" \in DOMAIN b.value.error

\* C7 as stated: an HTTPError is answered 400 with error.message whenever
\* that is present, otherwise with the reason phrase.
C7_MessageWheneverPresent ==
    (pc = "done" /\ upstream.kind = "HTTPError") =>
        response =
            Returned(Text(IF HasErrorMessage(upstream.response.body)
                          THEN upstream.response.body.value.error.message
                          ELSE upstream.response.reason),
                     Status(400))

\* C7 (amended): an HTTPError is answered 400 with error.message when that
\* is present and not empty, otherwise with the reason phrase.
C7_MessageWhenPresentAndNotEmpty ==
    (pc = "done" /\ upstream.kind = "HTTPError") =>
        response =
            Returned(Text(IF /\ HasErrorMessage(upstream.response.body)
                             /\ upstream.response.body.value.error.message # ""
                          THEN upstream.response.body.value.error.message
                          ELSE upstream.response.reason),
                     Status(400))

\* an HTTPError whose body holds an empty error.message was answered with
\* the reason phrase
C7_Witness ==
    /\ pc = "done"
    /\ upstream.kind = "HTTPError"
    /\ HasErrorMessage(upstream.response.body)
    /\ upstream.response.body.value.error.message = ""
    /\ response = Returned(Text("Not Found"), Status(400))

TransportFailure ==
    upstream.kind = "Exception" /\ upstream.class \in {"ConnectionError", "Timeout"}

\* C8: a connection error or a timeout is answered 500 with the fixed text
\* 'Internal server error.', which is not the text of the exception; the
\* two are answered alike.
C8_TransportFailureIsMasked ==
    (pc = "done" /\ TransportFailure) =>
        /\ response = Returned(Text(MSG_INTERNAL), Status(500))
        /\ response.data.text # upstream.args[1]

\* a timeout was answered 500 'Internal server error.'
C8_Witness ==
    /\ pc = "done"
    /\ upstream.kind = "Exception" /\ upstream.class = "Timeout"
    /\ response = Returned(Text(MSG_INTERNAL), Status(500))

\* C9: a validated request always ends in a Response, with msg and
\* response_status both assigned at the final return, and the pair is one
\* of: statistics with 200, a text with 400, 'Internal server error.' with
\* 500; no exception escapes the view.
C9_AlwaysAClassifiedResponse ==
    (pc = "done" /\ validated.is_valid) =>
        /\ msg # Unbound
        /\ response_status # Unbound
        /\ response.kind = "response"
        /\ \/ response.status = Status(200) /\ response.data.kind = "dict"
           \/ response.status = Status(400) /\ response.data.kind = "str"
           \/ response = Returned(Text(MSG_INTERNAL), Status(500))

\* C10: a validated request issues exactly one upstream request, whatever
\* its outcome: one once requests.get is called, none before, and no
\* outcome adds another.
C10_ExactlyOneUpstreamCall ==
    validated.is_valid =>
        getCalls = (IF pc \in {"awaiting", "done"} THEN 1 ELSE 0)

\* a request whose upstream call raised ended with one call issued
C10_Witness ==
    /\ pc = "done"
    /\ validated.is_valid
    /\ upstream.kind = "Exception"
    /\ getCalls = 1

-----------------------------------------------------------------------------
(* C11: the answer does not depend on the requested day count.             *)

\* what the view answers to an upstream outcome, written without the
\* request: no_of_days and validated do not occur in it
AnswerTo(u) ==
    IF u.kind = "HTTPError" THEN Finally(HTTPErrorBranch(u))
    ELSE IF u.kind = "Exception" THEN Finally(ExceptionBranch(u))
    ELSE Finally(ElseBranch(construct_forecast_payload(u)))

\* C11: the result of a validated request is determined by the upstream
\* outcome alone, so requests with different valid day counts that meet
\* the same outcome end alike; for a payload of 24-reading days the median
\* position and the average divisor come from the number of forecastday
\* entries, and such a payload is answered 200 with statistics also when
\* it holds another number of days than was requested.
C11_AnswerIgnoresRequestedDays ==
    (pc = "done" /\ validated.is_valid) =>
        /\ response = AnswerTo(upstream)
        /\ (upstream.kind = "response" /\ WellFormed(upstream.body)) =>
              LET fd == DaysOf(upstream.body)
                  flat == Flatten(fd)
                  N == Len(fd) * 24
              IN  /\ response.kind = "response"
                  /\ response.status = Status(200)
                  /\ response.data.kind = "dict"
                  /\ response.data.data.median =
                        PyRound(flat[N \div 2] + flat[(N \div 2) + 1], 2)
                  /\ response.data.data.average = PyRound(SeqSum(flat), N)

\* days=5 was requested, two days came back, and the answer is 200 with
\* the median taken across the two days present
C11_Witness ==
    /\ pc = "done"
    /\ validated.is_valid /\ validated.data = 5
    /\ upstream.kind = "response"
    /\ upstream.body = SpikeBody(2, 0, 23, [base |-> 0, v |-> 60])
    /\ response.kind = "response"
    /\ response.status = Status(200)
    /\ response.data.data.median = 30

====
